---- MODULE Spec2Model ----
(***************************************************************************)
(* State-machine model of pixz's writer (write.c): the reader thread that  *)
(* drives the tar parser and fills blocks, the encoder threads, and the    *)
(* main thread that writes blocks in sequence order and then the file      *)
(* index, the stream index and the footer.                                 *)
(*                                                                         *)
(* Sizes are scaled: one unit of input is one tar record.  The tar parser  *)
(* and the LZMA codec are libraries; the parser is modelled by its         *)
(* interface (it pulls bytes through tar_read and reports headers at       *)
(* increasing offsets inside the bytes it has pulled), the codec by a      *)
(* lossless byte transformation.                                          *)
(***************************************************************************)
EXTENDS Integers, Sequences, FiniteSets, TLC

\* ---------------------------------------------------------------- bounds
MaxThreads == 2
MaxInLen == 5
MaxHeaders == 3
BlockInSize == 2
CHUNKSIZE == 1
MaxChunk == 3
MaxEntries == 2

\* margin of block records created on top of two per encoder (write.c:96)
PoolMargin == 4

\* ------------------------------------------------------------- constants
NoBlock == 0
NULL == <<"NULL">>

\* pathnames the tar parser may report, as sequences of characters
Names ==
    { <<"a">>,
      <<"d", "/", ".", "_">>,
      <<".", "_", "d", "/", "a">> }

VARIABLES
    gNumEncodeThreads, \* N
    chunk,             \* CHUNKSIZE of the build
    inFile,            \* the bytes of gInFile
    inPos,             \* read position of gInFile
    inEof,             \* fread has returned 0: the parser's source is at end
    gReadQ,            \* free blocks
    gEncodeQ,          \* filled blocks, then one STOP per encoder
    gWriteQ,           \* encoded blocks, then STOP
    blk,               \* the fields of every io_block_t
    gReadBlock, gBlockNum, gTotalRead,
    gMultiHeader, gMultiHeaderStart,
    gFileIndex,        \* the chain gFileIndex .. gLastFile
    readPc, readI,     \* reader thread: position, loop counter
    encPc, encIb,      \* encoder threads: position, block in hand
    mainPc, mainI,     \* main thread: position, loop counter
    seq, ibs,          \* main's next sequence number and pending list
    gOutFile,          \* what has been written to the output file
    gIndex,            \* the stream-level index
    fiF, fiPhase,      \* write_file_index: the entry f, and what is next of it
    gFileIndexBuf, gFileIndexBufPos,
    gStreamIn,         \* what was handed to the block encoder gStream
    exit,              \* "running", "ok" (return 0), "die" or "crash"
    dieMsg,            \* the message of the die() that ended the process
    addCalls,          \* history: the add_file calls made
    encPushLog,        \* history: what was pushed to gEncodeQ
    writePushLog,      \* history: what was pushed to gWriteQ
    writePopLog,       \* history: what main popped from gWriteQ
    encStops           \* history: STOPs consumed by each encoder

vars ==
    << gNumEncodeThreads, chunk, inFile, inPos, inEof, gReadQ, gEncodeQ, gWriteQ, blk,
       gReadBlock, gBlockNum, gTotalRead, gMultiHeader, gMultiHeaderStart,
       gFileIndex, readPc, readI, encPc, encIb, mainPc, mainI, seq, ibs,
       gOutFile, gIndex, fiF, fiPhase, gFileIndexBuf, gFileIndexBufPos, gStreamIn,
       exit, dieMsg, addCalls, encPushLog, writePushLog, writePopLog, encStops >>

\* --------------------------------------------------------------- helpers
Min(a, b) == IF a < b THEN a ELSE b

RECURSIVE Concat(_)
Concat(ss) == IF ss = <<>> THEN <<>> ELSE Head(ss) \o Concat(Tail(ss))

\* mutant: the found block is not unlinked from the list
RemoveAtKept(s, j) == s

\* the sequence s without its j-th element
RemoveAt(s, j) == SubSeq(s, 1, j - 1) \o SubSeq(s, j + 1, Len(s))

PoolSize(n) == n * 2 + PoolMargin

\* the input files tried: n bytes, all different
Ramp(n) == [i \in 1..n |-> i]
Inputs == { Ramp(n) : n \in 0..MaxInLen }

\* With one encoder a file is tried as well that fills every block of the
\* pool: the reader can then get ahead of the writer by the whole pool.
LongLen == PoolSize(1) * BlockInSize
InputsOf(n) == IF n = 1 THEN Inputs \cup { Ramp(LongLen) } ELSE Inputs
Encoders == 1..gNumEncodeThreads

\* ---------------------------------------------------------------- queues
BlockMsg(ib) == [type |-> "MSG_BLOCK", ib |-> ib]

queue_push(q, type, ib) == Append(q, [type |-> type, ib |-> ib])
queue_can_pop(q) == q # <<>>
queue_front(q) == Head(q)
queue_rest(q) == Tail(q)

\* ----------------------------------------------------------------- codec
\* lzma_block_buffer_encode and its inverse: a lossless byte transformation
LzmaByte(b) == 255 - b
lzma_block_buffer_encode(input) ==
    [uncompressed_size |-> Len(input),
     data |-> [i \in 1..Len(input) |-> LzmaByte(input[i])]]
lzma_block_decode(output) ==
    [i \in 1..Len(output.data) |-> LzmaByte(output.data[i])]

\* ------------------------------------------------------------------ die
Die(msg) == /\ exit' = "die"
            /\ dieMsg' = msg

Running == exit = "running"

\* ------------------------------------------------------------------ Init
Init ==
    /\ gNumEncodeThreads \in 1..MaxThreads
    /\ chunk = CHUNKSIZE
    /\ inFile \in InputsOf(gNumEncodeThreads)
    /\ inPos = 0
    /\ inEof = FALSE
    /\ gReadQ = [i \in 1..PoolSize(gNumEncodeThreads) |-> BlockMsg(i)]
    /\ gEncodeQ = <<>>
    /\ gWriteQ = <<>>
    /\ blk = [i \in 1..PoolSize(gNumEncodeThreads) |->
                [seq |-> 0, insize |-> 0, input |-> <<>>,
                 output |-> lzma_block_buffer_encode(<<>>)]]
    /\ gReadBlock = NoBlock
    /\ gBlockNum = 0
    /\ gTotalRead = 0
    /\ gMultiHeader = FALSE
    /\ gMultiHeaderStart = 0
    /\ gFileIndex = <<>>
    /\ readPc = "uncreated"
    /\ readI = 0
    /\ encPc = [e \in Encoders |-> "uncreated"]
    /\ encIb = [e \in Encoders |-> NoBlock]
    /\ mainPc = "create_reader"
    /\ mainI = 0
    /\ seq = 0
    /\ ibs = <<>>
    /\ gOutFile = <<>>
    /\ gIndex = <<>>
    /\ fiF = 1
    /\ fiPhase = "name"
    /\ gFileIndexBuf = [i \in 1..chunk |-> 0]
    /\ gFileIndexBufPos = 0
    /\ gStreamIn = <<>>
    /\ exit = "running"
    /\ dieMsg = ""
    /\ addCalls = <<>>
    /\ encPushLog = <<>>
    /\ writePushLog = <<>>
    /\ writePopLog = <<>>
    /\ encStops = [e \in Encoders |-> 0]

\* ------------------------------------------------------- variable groups
cfgVars == << gNumEncodeThreads, chunk, inFile >>
fileVars == << inPos, inEof >>
readVars == << gReadBlock, gBlockNum, gTotalRead >>
indexVars == << gMultiHeader, gMultiHeaderStart, gFileIndex, addCalls >>
encVars == << encPc, encIb, encStops >>
fiVars == << fiF, fiPhase, gFileIndexBuf, gFileIndexBufPos, gStreamIn >>
mainVars == << mainPc, mainI, seq, ibs, gOutFile, gIndex, writePopLog, fiVars >>
exitVars == << exit, dieMsg >>

\* ------------------------------------------------------------ file index
\* while (i != 0 && name[i - 1] != '/') --i;
RECURSIVE BaseNameStart(_, _)
BaseNameStart(name, i) ==
    IF i # 0 /\ name[i] # "/" THEN BaseNameStart(name, i - 1) ELSE i

\* mutant: the test looks at the start of the whole pathname
is_multi_header_whole_path(name) ==
    /\ Len(name) >= 2
    /\ name[1] = "."
    /\ name[2] = "_"

\* strncmp(name + i, "._", 2) == 0
is_multi_header(name) ==
    LET i == BaseNameStart(name, Len(name))
    IN  /\ Len(name) >= i + 2
        /\ name[i + 1] = "."
        /\ name[i + 2] = "_"

\* mutant: gMultiHeader is not cleared when an entry is made
add_file_no_reset(offset, name) ==
    /\ addCalls' = Append(addCalls, [offset |-> offset, name |-> name])
    /\ IF name # NULL /\ is_multi_header(name)
       THEN /\ gMultiHeaderStart' = IF ~gMultiHeader THEN offset ELSE gMultiHeaderStart
            /\ gMultiHeader' = TRUE
            /\ UNCHANGED gFileIndex
       ELSE /\ gFileIndex' = Append(gFileIndex,
                  [offset |-> IF gMultiHeader THEN gMultiHeaderStart ELSE offset,
                   name |-> name])
            /\ UNCHANGED << gMultiHeader, gMultiHeaderStart >>

add_file(offset, name) ==
    /\ addCalls' = Append(addCalls, [offset |-> offset, name |-> name])
    /\ IF name # NULL /\ is_multi_header(name)
       THEN /\ gMultiHeaderStart' = IF ~gMultiHeader THEN offset ELSE gMultiHeaderStart
            /\ gMultiHeader' = TRUE
            /\ UNCHANGED gFileIndex
       ELSE /\ gFileIndex' = Append(gFileIndex,
                  [offset |-> IF gMultiHeader THEN gMultiHeaderStart ELSE offset,
                   name |-> name])
            /\ gMultiHeader' = FALSE
            /\ UNCHANGED gMultiHeaderStart

\* Archives of up to MaxHeaders members are run with one encoder, archives of
\* at most one member with more, and the long file has no member: add_file
\* does not depend on the encoders or on the blocks.
HeaderLimit ==
    IF Len(inFile) > MaxInLen THEN 0
    ELSE IF gNumEncodeThreads = 1 THEN MaxHeaders ELSE 1

\* the headers the parser has reported so far
HeaderCalls == SelectSeq(addCalls, LAMBDA c : c.name # NULL)
LastHeaderPos ==
    IF HeaderCalls = <<>> THEN -1 ELSE HeaderCalls[Len(HeaderCalls)].offset

\* ---------------------------------------------------------------- reader
\* mutant: the counter goes up by two
PostIncrementTwice(n) == n + 2

\* gBlockNum++: the value gBlockNum has after the block got its seq
PostIncrement(n) == n + 1

\* the parser asks for more input while the reader has no current block
TarReadCall ==
    /\ Running
    /\ readPc = "parse"
    /\ ~inEof
    /\ gReadBlock = NoBlock
    /\ readPc' = "tar_read"
    /\ UNCHANGED << cfgVars, fileVars, gReadQ, gEncodeQ, gWriteQ, blk, readVars,
                    indexVars, readI, encVars, mainVars, exitVars, encPushLog,
                    writePushLog >>

\* tar_read, first half: take a fresh block when there is none
TarReadPop ==
    /\ Running
    /\ readPc = "tar_read"
    /\ queue_can_pop(gReadQ)
    /\ LET ib == queue_front(gReadQ).ib
       IN  /\ gReadBlock' = ib
           /\ blk' = [blk EXCEPT ![ib].insize = 0, ![ib].input = <<>>,
                                 ![ib].seq = gBlockNum]
    /\ gReadQ' = queue_rest(gReadQ)
    /\ gBlockNum' = PostIncrement(gBlockNum)
    /\ readPc' = "fread"
    /\ UNCHANGED << cfgVars, fileVars, gEncodeQ, gWriteQ, gTotalRead, indexVars,
                    readI, encVars, mainVars, exitVars, encPushLog, writePushLog >>

\* mutant: a block is handed on after its first read
BlockFullAfterRead(insize) == insize >= 1

\* if (gReadBlock->insize == gBlockInSize)
BlockFull(insize) == insize = BlockInSize

\* size_t space = gBlockInSize - gReadBlock->insize, at most CHUNKSIZE
ReadSpace(insize) ==
    IF BlockInSize - insize > chunk THEN chunk ELSE BlockInSize - insize

InTarRead ==
    \/ readPc = "fread"
    \/ readPc = "parse" /\ ~inEof /\ gReadBlock # NoBlock

\* tar_read, second half: fread into the block, hand it on when it is full
TarReadFill ==
    /\ Running
    /\ InTarRead
    /\ LET space == ReadSpace(blk[gReadBlock].insize)
           rd == Min(space, Len(inFile) - inPos)
           insize == blk[gReadBlock].insize + rd
       IN  /\ blk' = [blk EXCEPT
                 ![gReadBlock].input = @ \o SubSeq(inFile, inPos + 1, inPos + rd),
                 ![gReadBlock].insize = insize]
           /\ inPos' = inPos + rd
           /\ inEof' = (rd = 0)
           /\ gTotalRead' = gTotalRead + rd
           /\ IF BlockFull(insize)
              THEN /\ gEncodeQ' = queue_push(gEncodeQ, "MSG_BLOCK", gReadBlock)
                   /\ encPushLog' = Append(encPushLog,
                         [type |-> "MSG_BLOCK", seq |-> blk[gReadBlock].seq])
                   /\ gReadBlock' = NoBlock
              ELSE UNCHANGED << gEncodeQ, encPushLog, gReadBlock >>
    /\ readPc' = "parse"
    /\ UNCHANGED << cfgVars, gReadQ, gWriteQ, gBlockNum, indexVars, readI, encVars,
                    mainVars, exitVars, writePushLog >>

TarReadError ==
    /\ Running
    /\ InTarRead
    /\ Die("Error reading input file")
    /\ UNCHANGED << cfgVars, fileVars, gReadQ, gEncodeQ, gWriteQ, blk, readVars,
                    indexVars, readPc, readI, encVars, mainVars, encPushLog,
                    writePushLog >>

\* archive_read_next_header returns a header: add_file(position, pathname).
\* The header lies after the one before it and inside the bytes pulled so far.
ParseHeader ==
    /\ Running
    /\ readPc = "parse"
    /\ Len(HeaderCalls) < HeaderLimit
    /\ \E offset \in (LastHeaderPos + 1)..(gTotalRead - 1), name \in Names :
          add_file(offset, name)
    /\ UNCHANGED << cfgVars, fileVars, gReadQ, gEncodeQ, gWriteQ, blk, readVars,
                    readPc, readI, encVars, mainVars, exitVars, encPushLog,
                    writePushLog >>

ParseError ==
    /\ Running
    /\ readPc = "parse"
    /\ Die("Error reading archive entry")
    /\ UNCHANGED << cfgVars, fileVars, gReadQ, gEncodeQ, gWriteQ, blk, readVars,
                    indexVars, readPc, readI, encVars, mainVars, encPushLog,
                    writePushLog >>

\* ARCHIVE_EOF: leave the loop, close the input, add the sentinel
ParseEof ==
    /\ Running
    /\ readPc = "parse"
    /\ inEof \/ gTotalRead > LastHeaderPos + 1
    /\ add_file(gTotalRead, NULL)
    /\ readPc' = "last_block"
    /\ UNCHANGED << cfgVars, fileVars, gReadQ, gEncodeQ, gWriteQ, blk, readVars,
                    readI, encVars, mainVars, exitVars, encPushLog, writePushLog >>

\* mutant: the last block is posted to the encoders whatever it holds
IsWasteNever(insize) == FALSE

\* if this block had only one read, and it was EOF, it's waste
IsWaste(insize) == insize = 0

\* write last block, if necessary
ReadLastBlock ==
    /\ Running
    /\ readPc = "last_block"
    /\ IF gReadBlock # NoBlock
       THEN /\ IF ~IsWaste(blk[gReadBlock].insize)
               THEN /\ gEncodeQ' = queue_push(gEncodeQ, "MSG_BLOCK", gReadBlock)
                    /\ encPushLog' = Append(encPushLog,
                          [type |-> "MSG_BLOCK", seq |-> blk[gReadBlock].seq])
                    /\ UNCHANGED gReadQ
               ELSE /\ gReadQ' = queue_push(gReadQ, "MSG_BLOCK", gReadBlock)
                    /\ UNCHANGED << gEncodeQ, encPushLog >>
            /\ gReadBlock' = NoBlock
       ELSE UNCHANGED << gReadQ, gEncodeQ, encPushLog, gReadBlock >>
    /\ readPc' = "stop"
    /\ readI' = 0
    /\ UNCHANGED << cfgVars, fileVars, gWriteQ, blk, gBlockNum, gTotalRead,
                    indexVars, encVars, mainVars, exitVars, writePushLog >>

\* one round of the loop that stops the encoders
ReadStop ==
    /\ Running
    /\ readPc = "stop"
    /\ gEncodeQ' = queue_push(gEncodeQ, "MSG_STOP", NoBlock)
    /\ encPushLog' = Append(encPushLog, [type |-> "MSG_STOP", seq |-> 0])
    /\ IF readI + 1 < gNumEncodeThreads
       THEN readI' = readI + 1 /\ UNCHANGED readPc
       ELSE readI' = 0 /\ readPc' = "join"
    /\ UNCHANGED << cfgVars, fileVars, gReadQ, gWriteQ, blk, readVars, indexVars,
                    encVars, mainVars, exitVars, writePushLog >>

\* mutant: the reader does not wait for the encoder
EncoderJoinedAtOnce(e) == TRUE

\* pthread_join(gEncodeThreads[i]) returns once that encoder has returned
EncoderJoined(e) == encPc[e] = "exited"

\* one round of the loop that joins the encoders
ReadJoin ==
    /\ Running
    /\ readPc = "join"
    /\ encPc[readI + 1] # "uncreated"
    /\ EncoderJoined(readI + 1)
    /\ IF readI + 1 < gNumEncodeThreads
       THEN readI' = readI + 1 /\ UNCHANGED readPc
       ELSE readI' = 0 /\ readPc' = "stop_writer"
    /\ UNCHANGED << cfgVars, fileVars, gReadQ, gEncodeQ, gWriteQ, blk, readVars,
                    indexVars, encVars, mainVars, exitVars, encPushLog,
                    writePushLog >>

\* The join of an encoder main has not created yet reads gEncodeThreads[i]
\* before pthread_create has stored it: the handle is indeterminate, and
\* pthread_join either reports an error (die) or faults.
ReadJoinUncreated ==
    /\ Running
    /\ readPc = "join"
    /\ encPc[readI + 1] = "uncreated"
    /\ \/ Die("Error joining encode thread")
       \/ exit' = "crash" /\ UNCHANGED dieMsg
    /\ UNCHANGED << cfgVars, fileVars, gReadQ, gEncodeQ, gWriteQ, blk, readVars,
                    indexVars, readPc, readI, encVars, mainVars, encPushLog,
                    writePushLog >>

ReadStopWriter ==
    /\ Running
    /\ readPc = "stop_writer"
    /\ gWriteQ' = queue_push(gWriteQ, "MSG_STOP", NoBlock)
    /\ writePushLog' = Append(writePushLog, [type |-> "MSG_STOP", seq |-> 0])
    /\ readPc' = "done"
    /\ UNCHANGED << cfgVars, fileVars, gReadQ, gEncodeQ, blk, readVars, indexVars,
                    readI, encVars, mainVars, exitVars, encPushLog >>

\* -------------------------------------------------------------- encoders
EncodePop(e) ==
    /\ Running
    /\ encPc[e] = "pop"
    /\ queue_can_pop(gEncodeQ)
    /\ LET msg == queue_front(gEncodeQ)
       IN  IF msg.type = "MSG_STOP"
           THEN /\ encPc' = [encPc EXCEPT ![e] = "exited"]
                /\ encStops' = [encStops EXCEPT ![e] = @ + 1]
                /\ UNCHANGED encIb
           ELSE /\ encPc' = [encPc EXCEPT ![e] = "encode"]
                /\ encIb' = [encIb EXCEPT ![e] = msg.ib]
                /\ UNCHANGED encStops
    /\ gEncodeQ' = queue_rest(gEncodeQ)
    /\ UNCHANGED << cfgVars, fileVars, gReadQ, gWriteQ, blk, readVars, indexVars,
                    readPc, readI, mainVars, exitVars, encPushLog, writePushLog >>

\* mutant: the encoder uses up the input of the block
encode_consuming(b) ==
    [b EXCEPT !.output = lzma_block_buffer_encode(b.input),
              !.input = <<>>, !.insize = 0]

\* block_init(&ib->block), ib->outsize = 0, lzma_block_buffer_encode: the
\* record b after the encoder has filled its block, output and outsize
encode(b) == [b EXCEPT !.output = lzma_block_buffer_encode(b.input)]

\* block_init, lzma_block_buffer_encode, queue_push(gWriteQ)
EncodeBlock(e) ==
    /\ Running
    /\ encPc[e] = "encode"
    /\ LET ib == encIb[e]
       IN  /\ blk' = [blk EXCEPT ![ib] = encode(blk[ib])]
           /\ gWriteQ' = queue_push(gWriteQ, "MSG_BLOCK", ib)
           /\ writePushLog' = Append(writePushLog,
                 [type |-> "MSG_BLOCK", seq |-> blk[ib].seq])
    /\ encPc' = [encPc EXCEPT ![e] = "pop"]
    /\ encIb' = [encIb EXCEPT ![e] = NoBlock]
    /\ UNCHANGED << cfgVars, fileVars, gReadQ, gEncodeQ, readVars, indexVars, readPc,
                    readI, encStops, mainVars, exitVars, encPushLog >>

EncodeError(e) ==
    /\ Running
    /\ encPc[e] = "encode"
    /\ Die("Error encoding block")
    /\ UNCHANGED << cfgVars, fileVars, gReadQ, gEncodeQ, gWriteQ, blk, readVars,
                    indexVars, readPc, readI, encVars, mainVars, encPushLog,
                    writePushLog >>

\* ------------------------------------------------------------------ main
pipeVars ==
    << cfgVars, fileVars, gEncodeQ, gWriteQ, blk, readVars, readI, encIb, encStops,
       encPushLog, writePushLog >>
othersVars == << pipeVars, fiVars >>

CreateReader ==
    /\ Running
    /\ mainPc = "create_reader"
    /\ readPc' = "parse"
    /\ mainPc' = "create_encoder"
    /\ mainI' = 0
    /\ UNCHANGED << othersVars, gReadQ, indexVars, encPc, seq, ibs, gOutFile, gIndex,
                    writePopLog, exitVars >>

\* mutant: the loop that creates the encoders ends after its first round
MoreEncodersNever(i) == FALSE

\* ++i, i < gNumEncodeThreads
MoreEncoders(i) == i + 1 < gNumEncodeThreads

CreateEncoder ==
    /\ Running
    /\ mainPc = "create_encoder"
    /\ encPc' = [encPc EXCEPT ![mainI + 1] = "pop"]
    /\ IF MoreEncoders(mainI)
       THEN mainI' = mainI + 1 /\ UNCHANGED mainPc
       ELSE mainI' = 0 /\ mainPc' = "stream_header"
    /\ UNCHANGED << othersVars, gReadQ, indexVars, readPc, seq, ibs, gOutFile, gIndex,
                    writePopLog, exitVars >>

CreateError ==
    /\ Running
    /\ mainPc \in {"create_reader", "create_encoder"}
    /\ Die(IF mainPc = "create_reader" THEN "Error creating read thread"
                                       ELSE "Error creating encode thread")
    /\ UNCHANGED << othersVars, gReadQ, indexVars, readPc, encPc, mainVars >>

\* stream_edge: the stream header or, given the size of the index, the footer
stream_edge(backward_size) ==
    gOutFile' = Append(gOutFile,
        IF backward_size = -1 THEN [kind |-> "header"]
        ELSE [kind |-> "footer", backward_size |-> backward_size])

\* lzma_index_init, stream_edge(LZMA_VLI_UNKNOWN), seq = 0, ibs = NULL
StreamHeader ==
    /\ Running
    /\ mainPc = "stream_header"
    /\ gIndex' = <<>>
    /\ stream_edge(-1)
    /\ seq' = 0
    /\ ibs' = <<>>
    /\ mainPc' = "pop"
    /\ UNCHANGED << othersVars, gReadQ, indexVars, readPc, encPc, mainI, writePopLog,
                    exitVars >>

StreamEdgeError ==
    /\ Running
    /\ mainPc \in {"stream_header", "stream_footer"}
    /\ Die("Error writing stream edge")
    /\ UNCHANGED << othersVars, gReadQ, indexVars, readPc, encPc, mainVars >>

\* mutant: main leaves the writer loop on the first message
IsStopAlways(msg) == TRUE

\* if (msg == MSG_STOP) break;
IsStop(msg) == msg = "MSG_STOP"

\* the writer loop: pop, leave on STOP, else put the block in front of ibs
MainPop ==
    /\ Running
    /\ mainPc = "pop"
    /\ queue_can_pop(gWriteQ)
    /\ LET msg == queue_front(gWriteQ)
       IN  /\ gWriteQ' = queue_rest(gWriteQ)
           /\ writePopLog' = Append(writePopLog,
                 [type |-> msg.type,
                  seq |-> IF msg.type = "MSG_BLOCK" THEN blk[msg.ib].seq ELSE 0])
           /\ IF IsStop(msg.type)
              THEN mainPc' = "file_index" /\ UNCHANGED ibs
              ELSE mainPc' = "write_blocks" /\ ibs' = <<msg.ib>> \o ibs
    /\ UNCHANGED << cfgVars, fileVars, gReadQ, gEncodeQ, blk, readVars, indexVars,
                    readPc, readI, encVars, mainI, seq, gOutFile, gIndex, fiVars,
                    exitVars, encPushLog, writePushLog >>

\* mutant: the first block of the list is taken whatever its seq
FindSeqFirst(list, s, j) == IF j > Len(list) THEN 0 ELSE j

\* position in the list of the first block whose seq is s, 0 when there is none
RECURSIVE FindSeq(_, _, _)
FindSeq(list, s, j) ==
    IF j > Len(list) THEN 0
    ELSE IF blk[list[j]].seq = s THEN j
    ELSE FindSeq(list, s, j + 1)

\* mutant: the written block is given back twice
RecycleTwice(q, ib) == queue_push(queue_push(q, "MSG_BLOCK", ib), "MSG_BLOCK", ib)

\* mutant: the written block is not given back
RecycleDropped(q, ib) == q

\* queue_push(gReadQ, MSG_BLOCK, ib): the written block goes back to the pool
Recycle(q, ib) == queue_push(q, "MSG_BLOCK", ib)

\* mutant: the record is put in front of the index
lzma_index_prepend(index, output) ==
    << [unpadded_size |-> Len(output.data),
        uncompressed_size |-> output.uncompressed_size] >> \o index

\* lzma_index_append(gIndex, NULL, lzma_block_unpadded_size(&block),
\* block.uncompressed_size)
lzma_index_append(index, output) ==
    Append(index, [unpadded_size |-> Len(output.data),
                   uncompressed_size |-> output.uncompressed_size])

\* write_blocks, one round of its while loop that finds the next block
WriteBlock ==
    /\ Running
    /\ mainPc = "write_blocks"
    /\ LET j == FindSeq(ibs, seq, 1)
       IN  /\ j # 0
           /\ LET ib == ibs[j]
              IN  /\ gOutFile' = Append(gOutFile,
                        [kind |-> "block", seq |-> blk[ib].seq,
                         output |-> blk[ib].output])
                  /\ gIndex' = lzma_index_append(gIndex, blk[ib].output)
                  /\ ibs' = RemoveAt(ibs, j)
                  /\ gReadQ' = Recycle(gReadQ, ib)
    /\ seq' = seq + 1
    /\ UNCHANGED << othersVars, indexVars, readPc, encPc, mainPc, mainI, writePopLog,
                    exitVars >>

\* mutant: the failed fwrite is reported and main carries on
WriteBlockErrorIgnored ==
    /\ Running
    /\ mainPc = "write_blocks"
    /\ dieMsg' = "Error writing block data"
    /\ UNCHANGED << othersVars, gReadQ, indexVars, readPc, encPc, mainVars, exit >>

\* fwrite or lzma_index_append fails on the block found
WriteBlockError ==
    /\ Running
    /\ mainPc = "write_blocks"
    /\ FindSeq(ibs, seq, 1) # 0
    /\ Die("Error writing block data")
    /\ UNCHANGED << othersVars, gReadQ, indexVars, readPc, encPc, mainVars >>

\* mutant: write_blocks returns without looking at the list
block_missing_assumed(list, s) == TRUE

\* block_missing is still true after the for loop: no block of the list has
\* the seq s
block_missing(list, s) == FindSeq(list, s, 1) = 0

\* write_blocks, the round that finds no block: return to the loop
WriteBlocksReturn ==
    /\ Running
    /\ mainPc = "write_blocks"
    /\ block_missing(ibs, seq)
    /\ mainPc' = "pop"
    /\ UNCHANGED << othersVars, gReadQ, indexVars, readPc, encPc, mainI, seq, ibs,
                    gOutFile, gIndex, writePopLog, exitVars >>

\* ------------------------------------------------------ write_file_index
\* the bytes of a name as a C string: its characters and the closing NUL
CharByte(c) ==
    CASE c = "a" -> 97
      [] c = "d" -> 100
      [] c = "/" -> 47
      [] c = "." -> 46
      [] c = "_" -> 95

\* char *name = f->name ? f->name : ""; the len + 1 bytes at name
CString(name) ==
    IF name = NULL THEN <<0>>
    ELSE [i \in 1..Len(name) |-> CharByte(name[i])] \o <<0>>

\* xle64enc: the low byte first
RECURSIVE LittleEndian(_, _)
LittleEndian(v, n) ==
    IF n = 0 THEN <<>> ELSE <<v % 256>> \o LittleEndian(v \div 256, n - 1)

xle64enc(offset) == LittleEndian(offset, 8)

\* the staging buffer, its fill position and the input the encoder has had
Staging == [buf |-> gFileIndexBuf, pos |-> gFileIndexBufPos, fed |-> gStreamIn]

\* mutant: the whole staging buffer is handed over, not its first pos bytes
write_file_index_buf_whole(st, action) ==
    [st EXCEPT !.fed = Append(@, [action |-> action, bytes |-> st.buf]),
               !.pos = 0]

\* write_file_index_buf: lzma_code takes the first pos bytes of the staging
\* buffer, then gFileIndexBufPos = 0
write_file_index_buf(st, action) ==
    [st EXCEPT !.fed = Append(@, [action |-> action,
                                  bytes |-> SubSeq(st.buf, 1, st.pos)]),
               !.pos = 0]

\* write_file_index_bytes(size, buf), from bufpos on: copy what fits, hand
\* the staging buffer over when it is full
RECURSIVE write_file_index_bytes(_, _, _)
write_file_index_bytes(st, bytes, bufpos) ==
    IF bufpos >= Len(bytes) THEN st
    ELSE LET space == chunk - st.pos
             len == IF Len(bytes) - bufpos > space THEN space
                    ELSE Len(bytes) - bufpos
             copied == [st EXCEPT
                 !.buf = [i \in 1..chunk |->
                            IF i > st.pos /\ i <= st.pos + len
                            THEN bytes[bufpos + i - st.pos] ELSE st.buf[i]],
                 !.pos = st.pos + len]
             flushed == IF copied.pos = chunk
                        THEN [write_file_index_buf(copied, "LZMA_RUN")
                                 EXCEPT !.pos = 0]
                        ELSE copied
         IN  write_file_index_bytes(flushed, bytes, bufpos + len)

SetStaging(st) ==
    /\ gFileIndexBuf' = st.buf
    /\ gFileIndexBufPos' = st.pos
    /\ gStreamIn' = st.fed

\* what the steps of write_file_index leave alone
fiFrame ==
    << pipeVars, gReadQ, gMultiHeader, gMultiHeaderStart, addCalls, readPc, encPc,
       mainI, seq, ibs, writePopLog, exitVars >>

\* write_file_index, the loop: write_file_index_bytes(len + 1, name)
WriteFileIndexName ==
    /\ Running
    /\ mainPc = "file_index"
    /\ fiF <= Len(gFileIndex)
    /\ fiPhase = "name"
    /\ SetStaging(write_file_index_bytes(Staging, CString(gFileIndex[fiF].name), 0))
    /\ fiPhase' = "offset"
    /\ UNCHANGED << fiFrame, gFileIndex, mainPc, gOutFile, gIndex, fiF >>

\* write_file_index, the loop: xle64enc, write_file_index_bytes(8, offbuf)
WriteFileIndexOffset ==
    /\ Running
    /\ mainPc = "file_index"
    /\ fiF <= Len(gFileIndex)
    /\ fiPhase = "offset"
    /\ SetStaging(write_file_index_bytes(Staging, xle64enc(gFileIndex[fiF].offset), 0))
    /\ fiPhase' = "name"
    /\ fiF' = fiF + 1
    /\ UNCHANGED << fiFrame, gFileIndex, mainPc, gOutFile, gIndex >>

\* write_file_index after the loop: write_file_index_buf(LZMA_FINISH), whose
\* output ends the file-index block, lzma_index_append; then free_file_index
WriteFileIndex ==
    /\ Running
    /\ mainPc = "file_index"
    /\ fiF > Len(gFileIndex)
    /\ LET st == write_file_index_buf(Staging, "LZMA_FINISH")
           output == lzma_block_buffer_encode(
                         Concat([i \in 1..Len(st.fed) |-> st.fed[i].bytes]))
       IN  /\ SetStaging(st)
           /\ gOutFile' = Append(gOutFile,
                 [kind |-> "file_index", entries |-> gFileIndex, output |-> output])
           /\ gIndex' = lzma_index_append(gIndex, output)
    /\ gFileIndex' = <<>>
    /\ mainPc' = "encode_index"
    /\ UNCHANGED << fiFrame, fiF, fiPhase >>

\* encode_index
EncodeIndex ==
    /\ Running
    /\ mainPc = "encode_index"
    /\ gOutFile' = Append(gOutFile, [kind |-> "index", records |-> gIndex])
    /\ mainPc' = "stream_footer"
    /\ UNCHANGED << othersVars, gReadQ, indexVars, readPc, encPc, mainI, seq, ibs,
                    gIndex, writePopLog, exitVars >>

TailError ==
    /\ Running
    /\ mainPc \in {"file_index", "encode_index"}
    /\ Die(IF mainPc = "file_index" THEN "Error writing file index"
                                    ELSE "Error writing index data")
    /\ UNCHANGED << othersVars, gReadQ, indexVars, readPc, encPc, mainVars >>

\* stream_edge(lzma_index_size(gIndex)), lzma_index_end, fclose
StreamFooter ==
    /\ Running
    /\ mainPc = "stream_footer"
    /\ stream_edge(Len(gIndex))
    /\ gIndex' = <<>>
    /\ mainPc' = "join_reader"
    /\ UNCHANGED << othersVars, gReadQ, indexVars, readPc, encPc, mainI, seq, ibs,
                    writePopLog, exitVars >>

\* pthread_join(gReadThread), free the queues, return 0
JoinReader ==
    /\ Running
    /\ mainPc = "join_reader"
    /\ readPc = "done"
    /\ mainPc' = "done"
    /\ exit' = "ok"
    /\ UNCHANGED << othersVars, gReadQ, indexVars, readPc, encPc, mainI, seq, ibs,
                    gOutFile, gIndex, writePopLog, dieMsg >>

\* ------------------------------------------------------------------ Next
Reader ==
    \/ TarReadCall
    \/ TarReadPop
    \/ TarReadFill
    \/ ParseHeader
    \/ ParseEof
    \/ ReadLastBlock
    \/ ReadStop
    \/ ReadJoin
    \/ ReadJoinUncreated
    \/ ReadStopWriter

Encoder(e) ==
    \/ EncodePop(e)
    \/ EncodeBlock(e)

Main ==
    \/ CreateReader
    \/ CreateEncoder
    \/ StreamHeader
    \/ MainPop
    \/ WriteBlock
    \/ WriteBlocksReturn
    \/ WriteFileIndexName
    \/ WriteFileIndexOffset
    \/ WriteFileIndex
    \/ EncodeIndex
    \/ StreamFooter
    \/ JoinReader

Errors ==
    \/ TarReadError
    \/ ParseError
    \/ CreateError
    \/ StreamEdgeError
    \/ WriteBlockError
    \/ TailError
    \/ \E e \in Encoders : EncodeError(e)

NoErrorNext ==
    \/ Reader
    \/ Main
    \/ \E e \in Encoders : Encoder(e)

Next ==
    \/ NoErrorNext
    \/ Errors

Spec == Init /\ [][Next]_vars

\* no I/O, codec or parser error, and every thread that can run does run
FairSpec ==
    /\ Init
    /\ [][NoErrorNext]_vars
    /\ WF_vars(Reader)
    /\ WF_vars(Main)
    /\ \A e \in 1..MaxThreads : WF_vars(e \in Encoders /\ Encoder(e))

\* ------------------------------------------- write_file_index on its own
\* The chains given to write_file_index: up to MaxEntries members, whose names
\* are no fragments, and the sentinel; offsets of one, two and four bytes.
IndexOffsets == {0, 258, 16909060}
MemberNames == { name \in Names : ~is_multi_header(name) }
Members ==
    UNION { [1..n -> [offset : IndexOffsets, name : MemberNames]] : n \in 0..MaxEntries }
Chains ==
    { m \o << [offset |-> o, name |-> NULL] >> : m \in Members, o \in IndexOffsets }

\* main enters write_file_index with a chain of Chains, in a build with a
\* CHUNKSIZE of 1..MaxChunk.  The reader and the encoder have ended and the
\* writer loop has left on STOP; the variables of the pipeline, which
\* write_file_index does not read, are those of a run on the empty file.
IndexInit ==
    /\ gNumEncodeThreads = 1
    /\ chunk \in 1..MaxChunk
    /\ inFile = <<>>
    /\ inPos = 0
    /\ inEof = TRUE
    /\ gReadQ = [i \in 1..PoolSize(1) |-> BlockMsg(IF i = PoolSize(1) THEN 1 ELSE i + 1)]
    /\ gEncodeQ = <<>>
    /\ gWriteQ = <<>>
    /\ blk = [i \in 1..PoolSize(1) |->
                [seq |-> 0, insize |-> 0, input |-> <<>>,
                 output |-> lzma_block_buffer_encode(<<>>)]]
    /\ gReadBlock = NoBlock
    /\ gBlockNum = 1
    /\ gTotalRead = 0
    /\ gMultiHeader = FALSE
    /\ gMultiHeaderStart = 0
    /\ gFileIndex \in Chains
    /\ readPc = "done"
    /\ readI = 0
    /\ encPc = [e \in 1..1 |-> "exited"]
    /\ encIb = [e \in 1..1 |-> NoBlock]
    /\ mainPc = "file_index"
    /\ mainI = 0
    /\ seq = 0
    /\ ibs = <<>>
    /\ gOutFile = << [kind |-> "header"] >>
    /\ gIndex = <<>>
    /\ fiF = 1
    /\ fiPhase = "name"
    /\ gFileIndexBuf = [i \in 1..chunk |-> 0]
    /\ gFileIndexBufPos = 0
    /\ gStreamIn = <<>>
    /\ exit = "running"
    /\ dieMsg = ""
    /\ addCalls = gFileIndex
    /\ encPushLog = << [type |-> "MSG_STOP", seq |-> 0] >>
    /\ writePushLog = << [type |-> "MSG_STOP", seq |-> 0] >>
    /\ writePopLog = << [type |-> "MSG_STOP", seq |-> 0] >>
    /\ encStops = [e \in 1..1 |-> 1]

IndexNext ==
    \/ WriteFileIndexName
    \/ WriteFileIndexOffset
    \/ WriteFileIndex

IndexSpec == IndexInit /\ [][IndexNext]_vars

\* ===================================================== checked properties
Last(s) == s[Len(s)]
CountType(log, t) == Len(SelectSeq(log, LAMBDA m : m.type = t))
WrittenBlocks == SelectSeq(gOutFile, LAMBDA r : r.kind = "block")

\* the writer loop has left on STOP
WriterLeft == mainPc \in {"file_index", "encode_index", "stream_footer",
                          "join_reader", "done"}

\* C1: the output file holds, in this order, the stream header, the data
\* blocks with seq 0, 1, .., k-1 (k the number of blocks the reader posted to
\* gEncodeQ) once each, the file-index block, the stream index and the footer:
\* at every moment it is a prefix of that sequence, and the whole of it when
\* main returns 0.
OutputOrder ==
    LET n == Len(gOutFile)
        nb == Len(WrittenBlocks)
        k == CountType(encPushLog, "MSG_BLOCK")
    IN  /\ n <= nb + 4
        /\ \A i \in 1..n :
              IF i = 1 THEN gOutFile[i].kind = "header"
              ELSE IF i <= nb + 1
                   THEN gOutFile[i].kind = "block" /\ gOutFile[i].seq = i - 2
              ELSE IF i = nb + 2
                   THEN gOutFile[i].kind = "file_index" /\ nb = k
              ELSE IF i = nb + 3 THEN gOutFile[i].kind = "index"
              ELSE gOutFile[i].kind = "footer"
        /\ exit = "ok" => n = nb + 4

\* a finished file of three data blocks that did not reach main in seq order
OutputOrderWitness ==
    /\ exit = "ok"
    /\ Len(WrittenBlocks) = 3
    /\ writePopLog[1].seq # 0

\* C2: when main returns 0, the decoded payloads of the data blocks, in output
\* order, are the input file byte for byte.
RoundTrip ==
    exit = "ok" =>
        Concat([i \in 1..Len(WrittenBlocks) |->
                   lzma_block_decode(WrittenBlocks[i].output)]) = inFile

\* the reader has added the sentinel and main has not yet released the chain
ChainFinished ==
    /\ addCalls # <<>>
    /\ Last(addCalls).name = NULL
    /\ ~(mainPc \in {"encode_index", "stream_footer", "join_reader", "done"})

\* C3: the finished chain has exactly one entry whose name is NULL, it is the
\* last entry, and its offset is gTotalRead.
SentinelLaw ==
    ChainFinished =>
        /\ gFileIndex # <<>>
        /\ \A i \in 1..Len(gFileIndex) :
              (gFileIndex[i].name = NULL) <=> (i = Len(gFileIndex))
        /\ Last(gFileIndex).offset = gTotalRead

\* the final path component of a pathname: what follows its last '/'
FinalComponent(name) ==
    LET slashes == { i \in 1..Len(name) : name[i] = "/" }
        last == IF slashes = {} THEN 0
                ELSE CHOOSE i \in slashes : \A j \in slashes : j <= i
    IN  SubSeq(name, last + 1, Len(name))

IsFragmentName(name) ==
    /\ name # NULL
    /\ Len(FinalComponent(name)) >= 2
    /\ SubSeq(FinalComponent(name), 1, 2) = <<".", "_">>

\* the add_file calls with a name that is no fragment, in call order
EntryCalls ==
    LET RECURSIVE Pick(_)
        Pick(i) == IF i > Len(addCalls) THEN <<>>
                   ELSE IF IsFragmentName(addCalls[i].name) THEN Pick(i + 1)
                   ELSE <<i>> \o Pick(i + 1)
    IN  Pick(1)

\* the first call of the maximal run of fragments that ends just before call i
RunStart(i) ==
    CHOOSE m \in 1..i :
        /\ \A j \in m..(i - 1) : IsFragmentName(addCalls[j].name)
        /\ m = 1 \/ ~IsFragmentName(addCalls[m - 1].name)

ChainKept == ~(mainPc \in {"encode_index", "stream_footer", "join_reader", "done"})

\* C4: after any sequence of add_file calls no entry has a name whose final
\* component begins with "._"; every call with a name that is no fragment made
\* exactly one entry, in call order, with that name and with the offset of the
\* first fragment of the run just before it, or its own offset when no
\* fragment precedes it.
MultiHeaderCollapse ==
    ChainKept =>
        /\ \A i \in 1..Len(gFileIndex) : ~IsFragmentName(gFileIndex[i].name)
        /\ Len(gFileIndex) = Len(EntryCalls)
        /\ \A j \in 1..Len(EntryCalls) :
              /\ gFileIndex[j].name = addCalls[EntryCalls[j]].name
              /\ gFileIndex[j].offset = addCalls[RunStart(EntryCalls[j])].offset

\* a run of two fragments, one of them inside a directory, collapsed into the
\* member that follows, and a member below a directory whose name begins "._"
MultiHeaderCollapseWitness ==
    /\ ChainKept
    /\ Len(addCalls) >= 3
    /\ IsFragmentName(addCalls[1].name)
    /\ addCalls[2].name = <<"d", "/", ".", "_">>
    /\ addCalls[3].name = <<".", "_", "d", "/", "a">>
    /\ Len(gFileIndex) >= 1

\* the header the parser reported at an offset
HeaderAt(offset) ==
    CHOOSE i \in 1..Len(HeaderCalls) : HeaderCalls[i].offset = offset

\* C5 as stated: for every entry but the sentinel, the tar header at
\* entry.offset is the header whose pathname is entry.name.
IndexConsistency ==
    ChainKept =>
        \A j \in 1..Len(gFileIndex) :
            gFileIndex[j].name # NULL =>
                /\ \E i \in 1..Len(HeaderCalls) :
                      HeaderCalls[i].offset = gFileIndex[j].offset
                /\ HeaderCalls[HeaderAt(gFileIndex[j].offset)].name = gFileIndex[j].name

\* C5 as amended: for every entry but the sentinel, the tar header at
\* entry.offset is the header whose pathname is entry.name, or it is the first
\* of a run of "._" fragment headers and the header that follows the run is
\* the one whose pathname is entry.name.
IndexConsistencyCollapsed ==
    ChainKept =>
        \A j \in 1..Len(gFileIndex) :
            gFileIndex[j].name # NULL =>
                \E i \in 1..Len(HeaderCalls) :
                    /\ HeaderCalls[i].offset = gFileIndex[j].offset
                    /\ \/ HeaderCalls[i].name = gFileIndex[j].name
                       \/ \E m \in (i + 1)..Len(HeaderCalls) :
                             /\ \A r \in i..(m - 1) : IsFragmentName(HeaderCalls[r].name)
                             /\ i = 1 \/ ~IsFragmentName(HeaderCalls[i - 1].name)
                             /\ HeaderCalls[m].name = gFileIndex[j].name

\* a chain with an entry of its own and an entry that stands for a run
IndexConsistencyWitness ==
    /\ ChainKept
    /\ Len(gFileIndex) >= 2
    /\ Len(HeaderCalls) = 3
    /\ ~IsFragmentName(HeaderCalls[1].name)
    /\ IsFragmentName(HeaderCalls[2].name)
    /\ gFileIndex[2].name = HeaderCalls[3].name

NoBlockAfterStop(log) ==
    \A i \in 1..Len(log) : \A j \in (i + 1)..Len(log) :
        log[i].type = "MSG_STOP" => log[j].type = "MSG_STOP"

\* C6: once the writer loop has left on STOP the pending list is empty, the
\* reader holds no block, gEncodeQ and gWriteQ hold no block, and every one of
\* the 2N+4 block records is in gReadQ.
PoolClosure ==
    WriterLeft =>
        /\ ibs = <<>>
        /\ gReadBlock = NoBlock
        /\ CountType(gEncodeQ, "MSG_BLOCK") = 0
        /\ CountType(gWriteQ, "MSG_BLOCK") = 0
        /\ Len(gReadQ) = PoolSize(gNumEncodeThreads)
        /\ { gReadQ[i].ib : i \in 1..Len(gReadQ) } = 1..PoolSize(gNumEncodeThreads)
        /\ \A i \in 1..Len(gReadQ) : gReadQ[i].type = "MSG_BLOCK"

\* two encoders, blocks written and recycled, and a last block that stayed
\* empty and went straight back to gReadQ
PoolClosureWitness ==
    /\ exit = "ok"
    /\ gNumEncodeThreads = 2
    /\ CountType(encPushLog, "MSG_BLOCK") >= 2
    /\ gBlockNum > CountType(encPushLog, "MSG_BLOCK")

\* C7: whatever the schedule and the number of encoders, the written block
\* with seq i holds the input bytes from i*BlockInSize up to the smaller of
\* (i+1)*BlockInSize and the number of bytes read: every block is full but
\* possibly the last, and the blocks are as many as the bytes read need.
BlockBoundaries ==
    /\ \A i \in 1..Len(WrittenBlocks) :
          LET b == WrittenBlocks[i]
              data == lzma_block_decode(b.output)
              from == b.seq * BlockInSize
          IN  /\ b.seq = i - 1
              /\ data = SubSeq(inFile, from + 1, from + Len(data))
              /\ \/ Len(data) = BlockInSize
                 \/ /\ ~(readPc \in {"uncreated", "parse", "tar_read", "fread"})
                    /\ from + Len(data) = gTotalRead
    /\ WriterLeft =>
          Len(WrittenBlocks) = (gTotalRead + BlockInSize - 1) \div BlockInSize

\* two encoders, two full blocks and a shorter last one, reaching main out of
\* seq order
BlockBoundariesWitness ==
    /\ exit = "ok"
    /\ gNumEncodeThreads = 2
    /\ Len(WrittenBlocks) = 3
    /\ WrittenBlocks[3].output.uncompressed_size < BlockInSize
    /\ writePopLog[1].seq = 1

Finished ==
    /\ exit = "ok"
    /\ mainPc = "done"
    /\ readPc = "done"
    /\ \A e \in Encoders : encPc[e] = "exited" /\ encStops[e] = 1
    /\ CountType(writePopLog, "MSG_STOP") = 1
    /\ gOutFile # <<>>
    /\ Last(gOutFile).kind = "footer"

\* C8: with no error and every thread scheduled fairly, the run comes to the
\* state where every encoder has left on a STOP, main has popped STOP, the
\* footer is written and main has joined the reader; and in every state before
\* that some thread can take a step.
Termination ==
    /\ <>Finished
    /\ [](Finished \/ ENABLED NoErrorNext)

\* C9: a fatal error ends the process at once: die leaves the process exited,
\* and after the exit nothing more is written and no queue changes.
FatalStops ==
    [][ /\ dieMsg' # "" => exit' = "die"
        /\ exit # "running" =>
              UNCHANGED << gOutFile, gIndex, gReadQ, gEncodeQ, gWriteQ, exit >>
      ]_vars

\* the write of the third data block failed while blocks were still in flight
FatalStopsWitness ==
    /\ exit = "die"
    /\ dieMsg = "Error writing block data"
    /\ seq = 2
    /\ Len(WrittenBlocks) = 2
    /\ \E e \in Encoders : encPc[e] = "pop"

\* C10: every encoder consumes exactly one STOP and leaves; no block is pushed
\* to gEncodeQ after the first STOP; the one STOP of gWriteQ is pushed when all
\* encoders have left, so no block is behind it in gWriteQ and main pops no
\* block after it.
StopOrdering ==
    /\ \A e \in Encoders : encStops[e] = IF encPc[e] = "exited" THEN 1 ELSE 0
    /\ NoBlockAfterStop(encPushLog)
    /\ CountType(encPushLog, "MSG_STOP") <= gNumEncodeThreads
    /\ CountType(writePushLog, "MSG_STOP") <= 1
    /\ CountType(writePushLog, "MSG_STOP") = 1 =>
          \A e \in Encoders : encPc[e] = "exited"
    /\ NoBlockAfterStop(writePushLog)
    /\ NoBlockAfterStop(gWriteQ)
    /\ NoBlockAfterStop(writePopLog)

\* a finished run of two encoders that each took a STOP, after three blocks
StopOrderingWitness ==
    /\ exit = "ok"
    /\ gNumEncodeThreads = 2
    /\ \A e \in Encoders : encStops[e] = 1
    /\ CountType(writePopLog, "MSG_BLOCK") = 3
    /\ Last(writePopLog).type = "MSG_STOP"

\* ------------------------------------------------------------- ownership
Blocks == 1..PoolSize(gNumEncodeThreads)

\* how many messages of a queue carry the block ib
InQueue(q, ib) ==
    Len(SelectSeq(q, LAMBDA m : m.type = "MSG_BLOCK" /\ m.ib = ib))

\* how many messages of the three queues carry the block ib
Queued(rq, eq, wq, ib) == InQueue(rq, ib) + InQueue(eq, ib) + InQueue(wq, ib)

HeldByReader(ib) == IF gReadBlock = ib THEN 1 ELSE 0
HeldByEncoders(ib) == Cardinality({ e \in Encoders : encIb[e] = ib })
InPending(ib) == Len(SelectSeq(ibs, LAMBDA x : x = ib))

\* every record is in exactly one of the six places
OnePlace ==
    /\ \A ib \in Blocks :
          Queued(gReadQ, gEncodeQ, gWriteQ, ib) + HeldByReader(ib)
              + HeldByEncoders(ib) + InPending(ib) = 1
    /\ CountType(gReadQ, "MSG_BLOCK") + (IF gReadBlock # NoBlock THEN 1 ELSE 0)
          + CountType(gEncodeQ, "MSG_BLOCK")
          + Cardinality({ e \in Encoders : encIb[e] # NoBlock })
          + CountType(gWriteQ, "MSG_BLOCK") + Len(ibs)
       = PoolSize(gNumEncodeThreads)

\* a step that changes a field of a record is taken by the stage that holds
\* the record: the reader with the record as its current block (or having
\* just popped it), or the encoder with the record in hand; the record is in
\* no queue then
WritesHeld ==
    \A ib \in Blocks :
        blk'[ib] # blk[ib] =>
            \/ /\ gReadBlock = ib
               /\ Queued(gReadQ, gEncodeQ, gWriteQ, ib) = 0
            \/ /\ gReadBlock = NoBlock
               /\ gReadBlock' = ib
               /\ Queued(gReadQ', gEncodeQ', gWriteQ', ib) = 0
            \/ /\ \E e \in Encoders : encIb[e] = ib
               /\ Queued(gReadQ, gEncodeQ, gWriteQ, ib) = 0

\* the pending list (the next links) changes only by main putting in front
\* the block it has just popped or unlinking the block it gives back
LinksHeld ==
    ibs' # ibs =>
        \/ /\ gWriteQ # <<>>
           /\ ibs' = <<Head(gWriteQ).ib>> \o ibs
           /\ gWriteQ' = Tail(gWriteQ)
        \/ \E j \in 1..Len(ibs) :
              /\ ibs' = SubSeq(ibs, 1, j - 1) \o SubSeq(ibs, j + 1, Len(ibs))
              /\ gReadQ' = Append(gReadQ, BlockMsg(ibs[j]))
        \/ ibs = <<>> /\ ibs' = <<>>

\* C11: in every state each of the 2N+4 block records is in exactly one place
\* among gReadQ, the reader's current block, gEncodeQ, an encoder, gWriteQ and
\* main's pending list, the six counts adding up to 2N+4; and a field of a
\* record is written only by the stage that holds the record, never while the
\* record is in a queue.
SingleOwnership ==
    /\ []OnePlace
    /\ [][WritesHeld /\ LinksHeld]_vars

\* all six places hold a record at once
SingleOwnershipWitness ==
    /\ gReadQ # <<>>
    /\ gReadBlock # NoBlock
    /\ blk[gReadBlock].insize > 0
    /\ CountType(gEncodeQ, "MSG_BLOCK") > 0
    /\ \E e \in Encoders : encIb[e] # NoBlock
    /\ CountType(gWriteQ, "MSG_BLOCK") > 0
    /\ ibs # <<>>

\* ------------------------------------------------------ file-index chain
FileIndexWritten == \E i \in 1..Len(gOutFile) : gOutFile[i].kind = "file_index"

\* main is in write_file_index or has been through it
ChainRead == mainPc = "file_index" \/ FileIndexWritten

\* pthread_join(gReadThread) has returned
ReaderJoined == mainPc = "done"

\* C12 as stated: main reads the file-index chain only after it has joined the
\* reader thread.
ChainReadAfterJoin == ChainRead => ReaderJoined

\* the chain changes only by an add_file of the reader, which appends an entry
\* while main is still in its writer loop or before it, or by main releasing
\* it when write_file_index is through
ChainWriters ==
    gFileIndex' # gFileIndex =>
        \/ /\ readPc = "parse"
           /\ ~ChainRead
           /\ Len(gFileIndex') = Len(gFileIndex) + 1
           /\ SubSeq(gFileIndex', 1, Len(gFileIndex)) = gFileIndex
        \/ /\ mainPc = "file_index"
           /\ readPc = "done"
           /\ gFileIndex' = <<>>

\* C12 as amended: the chain is appended to only by the reader thread, and
\* main reads it only after it has popped the STOP that the reader pushes to
\* gWriteQ as its last act, after the add_file of the sentinel; the join of the
\* reader thread comes later, after the footer.
ChainReadAfterStop ==
    /\ [](ChainRead =>
            /\ readPc = "done"
            /\ writePopLog # <<>>
            /\ Last(writePopLog).type = "MSG_STOP"
            /\ addCalls # <<>>
            /\ Last(addCalls).name = NULL)
    /\ [](mainPc = "file_index" =>
            /\ gFileIndex # <<>>
            /\ Last(gFileIndex).name = NULL)
    /\ [](ReaderJoined => FileIndexWritten /\ Last(gOutFile).kind = "footer")
    /\ [][ChainWriters]_vars

\* main is through write_file_index, with a chain of two members and the
\* sentinel, and has not joined the reader
ChainReadAfterStopWitness ==
    /\ FileIndexWritten
    /\ ~ReaderJoined
    /\ Len(SelectSeq(addCalls, LAMBDA c : ~IsFragmentName(c.name))) = 3
    /\ readPc = "done"

\* ---------------------------------------------------------- empty blocks
\* the records posted to the encoders and not yet given back
InFlight ==
    { gEncodeQ[i].ib : i \in { j \in 1..Len(gEncodeQ) : gEncodeQ[j].type = "MSG_BLOCK" } }
    \cup { encIb[e] : e \in { x \in Encoders : encIb[x] # NoBlock } }
    \cup { gWriteQ[i].ib : i \in { j \in 1..Len(gWriteQ) : gWriteQ[j].type = "MSG_BLOCK" } }
    \cup { ibs[i] : i \in 1..Len(ibs) }

\* the reader leaves "write last block" with an empty current block
DiscardsEmpty ==
    /\ readPc = "last_block"
    /\ readPc' = "stop"
    /\ gReadBlock # NoBlock
    /\ blk[gReadBlock].insize = 0

\* C13: a record with insize = 0 is never pushed to gEncodeQ and never encoded
\* or written: every record posted to the encoders, popped by one, waiting for
\* main or written has 0 < insize <= BlockInSize, and an empty current block
\* at the end of input is pushed to gReadQ instead.
NoEmptyBlock ==
    /\ [](\A ib \in InFlight :
             /\ 0 < blk[ib].insize
             /\ blk[ib].insize <= BlockInSize
             /\ Len(blk[ib].input) = blk[ib].insize)
    /\ [](\A i \in 1..Len(WrittenBlocks) :
             /\ 0 < WrittenBlocks[i].output.uncompressed_size
             /\ WrittenBlocks[i].output.uncompressed_size <= BlockInSize)
    /\ [][DiscardsEmpty =>
             /\ gReadQ' = Append(gReadQ, BlockMsg(gReadBlock))
             /\ gEncodeQ' = gEncodeQ
             /\ encPushLog' = encPushLog
             /\ gReadBlock' = NoBlock]_vars

\* the reader has given its empty last block back while an encoder still has
\* a block in hand
NoEmptyBlockWitness ==
    /\ readPc = "stop"
    /\ gBlockNum = CountType(encPushLog, "MSG_BLOCK") + 1
    /\ gReadQ # <<>>
    /\ blk[Last(gReadQ).ib].insize = 0
    /\ \E e \in Encoders : encIb[e] # NoBlock

\* ------------------------------------------------------ sequence numbers
\* the seq values of the blocks posted to gEncodeQ, in the order of posting
PostedSeqs ==
    LET posted == SelectSeq(encPushLog, LAMBDA m : m.type = "MSG_BLOCK")
    IN  [i \in 1..Len(posted) |-> posted[i].seq]

ReaderHasLeftParser == readPc \in {"stop", "join", "stop_writer", "done"}

\* the reader pops a record from gReadQ
ReaderPops == gReadBlock = NoBlock /\ gReadBlock' # NoBlock

\* C14: the reader gives the seq values 0, 1, 2, .. in increasing order, one
\* to each record it pops from gReadQ; the seq values of the blocks posted to
\* gEncodeQ are 0..k-1 in this order; a seq used up by a block that is
\* discarded as empty is the highest one given, so main never waits for a seq
\* that does not arrive.
SeqContiguous ==
    /\ [](PostedSeqs = [i \in 1..Len(PostedSeqs) |-> i - 1])
    /\ [](IF gReadBlock # NoBlock
          THEN /\ blk[gReadBlock].seq = Len(PostedSeqs)
               /\ gBlockNum = Len(PostedSeqs) + 1
          ELSE \/ gBlockNum = Len(PostedSeqs)
               \/ /\ gBlockNum = Len(PostedSeqs) + 1
                  /\ ReaderHasLeftParser)
    /\ [](seq <= Len(PostedSeqs))
    /\ [](\A i \in 1..Len(ibs) : blk[ibs[i]].seq < Len(PostedSeqs))
    /\ [][/\ ReaderPops =>
                /\ gBlockNum' = gBlockNum + 1
                /\ blk'[gReadBlock'].seq = gBlockNum
                /\ gReadQ' = Tail(gReadQ)
          /\ gBlockNum' # gBlockNum => ReaderPops]_vars

\* a whole pool of blocks was posted and written, and one more seq was used
\* up by a recycled record that stayed empty
SeqContiguousWitness ==
    /\ exit = "ok"
    /\ Len(PostedSeqs) = PoolSize(gNumEncodeThreads)
    /\ gBlockNum = Len(PostedSeqs) + 1
    /\ seq = Len(PostedSeqs)

\* ----------------------------------------------------------- stream index
\* the blocks of the output file, data blocks and file-index block, in the
\* order of their bytes
OutBlocks == SelectSeq(gOutFile, LAMBDA r : r.kind \in {"block", "file_index"})

\* the index record that describes a block of the output file
RecordOf(r) ==
    [unpadded_size |-> Len(r.output.data),
     uncompressed_size |-> r.output.uncompressed_size]

\* an index describes the blocks of the output file, one record each, in order
Describes(index) ==
    /\ Len(index) = Len(OutBlocks)
    /\ \A i \in 1..Len(index) :
          /\ index[i] = RecordOf(OutBlocks[i])
          /\ OutBlocks[i].kind = "block" => OutBlocks[i].seq = i - 1
          /\ OutBlocks[i].kind = "file_index" => i = Len(OutBlocks)

\* lzma_index_end has not been called
IndexAlive == mainPc \in {"pop", "write_blocks", "file_index", "encode_index",
                          "stream_footer"}

\* gIndex changes only in a step of main that writes a block and appends its
\* record, or that creates or ends the index
IndexWriter ==
    gIndex' # gIndex =>
        \/ /\ mainPc \in {"write_blocks", "file_index"}
           /\ Len(gIndex') = Len(gIndex) + 1
           /\ SubSeq(gIndex', 1, Len(gIndex)) = gIndex
           /\ Len(gOutFile') = Len(gOutFile) + 1
           /\ Last(gIndex') = RecordOf(Last(gOutFile'))
        \/ /\ mainPc = "stream_footer"
           /\ gIndex' = <<>>

\* C15: the stream-level index is appended to only by main, one record for
\* each block written to the output and in the order the blocks were written:
\* the i-th record describes the data block with seq i, and the last record is
\* that of the file-index block, appended after the records of all data blocks
\* and before the index is encoded.
IndexOrder ==
    /\ [](IndexAlive => Describes(gIndex))
    /\ [](\A i \in 1..Len(gOutFile) :
             gOutFile[i].kind = "index" =>
                 /\ Describes(gOutFile[i].records)
                 /\ Len(OutBlocks) = Len(WrittenBlocks) + 1
                 /\ Last(OutBlocks).kind = "file_index")
    /\ [][IndexWriter]_vars

\* the index of two full blocks, a shorter one and the file-index block has
\* been encoded, the blocks having reached main out of seq order
IndexOrderWitness ==
    /\ mainPc = "stream_footer"
    /\ Len(gIndex) = 4
    /\ gIndex[3].uncompressed_size < gIndex[2].uncompressed_size
    /\ writePopLog[1].seq # 0

\* ------------------------------------------------------------ pending set
\* write_blocks has been called and has returned
WriteBlocksReturned == mainPc = "pop" \/ WriterLeft

\* C16: whenever write_blocks has returned, every block of the pending list
\* has a seq greater than main's next seq and no two have the same seq; the
\* next seq is the number of data blocks written; and the pending list never
\* holds more than 2N+4 records.
PendingSet ==
    /\ WriteBlocksReturned =>
          /\ \A i \in 1..Len(ibs) : blk[ibs[i]].seq > seq
          /\ \A i, j \in 1..Len(ibs) : i # j => blk[ibs[i]].seq # blk[ibs[j]].seq
    /\ seq = Len(WrittenBlocks)
    /\ Len(ibs) <= PoolSize(gNumEncodeThreads)

\* write_blocks has returned with two blocks pending while the first block
\* is still with its encoder
PendingSetWitness ==
    /\ mainPc = "pop"
    /\ Len(ibs) = 2
    /\ seq = 0
    /\ \E e \in Encoders : encIb[e] # NoBlock /\ blk[encIb[e]].seq = 0

\* ------------------------------------------------------------ output file
EncoderStarted(e) == encPc[e] # "uncreated"
HeaderWritten == gOutFile # <<>> /\ gOutFile[1].kind = "header"

\* a step that writes to the output file is a step of main: main is at a
\* place where it writes, and the reader and the encoders do not move
WrittenByMain ==
    gOutFile' # gOutFile =>
        /\ mainPc \in {"stream_header", "write_blocks", "file_index",
                       "encode_index", "stream_footer"}
        /\ Len(gOutFile') = Len(gOutFile) + 1
        /\ SubSeq(gOutFile', 1, Len(gOutFile)) = gOutFile
        /\ UNCHANGED << readPc, readI, readVars, encVars, gEncodeQ, gWriteQ, blk >>

\* C17 as stated: the stream header is emitted by main before any encoder
\* thread is started.
HeaderBeforeEncoders == (\E e \in Encoders : EncoderStarted(e)) => HeaderWritten

\* C17 as amended: the output file is written only by main, and the stream
\* header is emitted by main after it has created the reader thread and all
\* the encoder threads, and before it pops the first message from gWriteQ.
HeaderAfterEncoders ==
    /\ [](gOutFile # <<>> =>
            /\ HeaderWritten
            /\ readPc # "uncreated"
            /\ \A e \in Encoders : EncoderStarted(e))
    /\ [](writePopLog # <<>> => HeaderWritten)
    /\ [](mainPc \in {"create_reader", "create_encoder", "stream_header"} =>
            gOutFile = <<>> /\ writePopLog = <<>>)
    /\ [][WrittenByMain]_vars

\* the header has just been written while both encoders are at work and an
\* encoded block waits for main
HeaderAfterEncodersWitness ==
    /\ gOutFile = << [kind |-> "header"] >>
    /\ gNumEncodeThreads = 2
    /\ encPc[1] = "encode"
    /\ encPc[2] = "pop"
    /\ CountType(gWriteQ, "MSG_BLOCK") = 1

\* ------------------------------------------------------------ encode stage
\* encoder e pushes the block it has in hand to gWriteQ
EncoderPushes(e) ==
    /\ encIb[e] # NoBlock
    /\ encIb'[e] = NoBlock
    /\ gWriteQ' = Append(gWriteQ, BlockMsg(encIb[e]))

\* C18: an encoder that handles a block changes the block's codec metadata,
\* output and outsize only: seq, insize and the input bytes are, when the
\* block is pushed to gWriteQ, what they were when it was popped from
\* gEncodeQ, and the output is the encoding of that input.  (Blocks may reach
\* gWriteQ in any order of seq: see the witness.)
EncoderFrame ==
    /\ [][\A e \in Encoders :
             encIb[e] # NoBlock =>
                 /\ blk'[encIb[e]].seq = blk[encIb[e]].seq
                 /\ blk'[encIb[e]].insize = blk[encIb[e]].insize
                 /\ blk'[encIb[e]].input = blk[encIb[e]].input
                 /\ encIb'[e] # encIb[e] => EncoderPushes(e)
                 /\ EncoderPushes(e) =>
                       /\ blk'[encIb[e]].output =
                              lzma_block_buffer_encode(blk[encIb[e]].input)
                       /\ \A ib \in Blocks \ {encIb[e]} : blk'[ib] = blk[ib]]_vars
    /\ [](\A i \in 1..Len(gWriteQ) :
             gWriteQ[i].type = "MSG_BLOCK" =>
                 /\ lzma_block_decode(blk[gWriteQ[i].ib].output) = blk[gWriteQ[i].ib].input
                 /\ Len(blk[gWriteQ[i].ib].input) = blk[gWriteQ[i].ib].insize
                 /\ blk[gWriteQ[i].ib].input =
                       SubSeq(inFile, blk[gWriteQ[i].ib].seq * BlockInSize + 1,
                              blk[gWriteQ[i].ib].seq * BlockInSize
                                  + blk[gWriteQ[i].ib].insize))

\* the blocks with seq 1 and 2 reached gWriteQ, in this order, before the
\* block with seq 0
EncoderFrameWitness ==
    /\ Len(writePushLog) = 3
    /\ writePushLog[1].seq = 1
    /\ writePushLog[2].seq = 2
    /\ writePushLog[3].seq = 0
    /\ writePushLog[3].type = "MSG_BLOCK"

\* --------------------------------------------------- file-index encoding
\* the bytes of a name, without the closing NUL
NameBytes(name) ==
    IF name = NULL THEN <<>> ELSE [i \in 1..Len(name) |-> CharByte(name[i])]

\* eight bytes that are the little-endian form of v, v below 2^31
IsLittleEndian64(b, v) ==
    /\ Len(b) = 8
    /\ \A i \in 1..8 : b[i] \in 0..255
    /\ b[1] + 256 * b[2] + 65536 * b[3] + 16777216 * b[4] = v
    /\ \A i \in 5..8 : b[i] = 0

\* the entries in chain order: name bytes, one 0x00, the offset
Serialized(chain) ==
    Concat([i \in 1..Len(chain) |->
               NameBytes(chain[i].name) \o <<0>> \o xle64enc(chain[i].offset)])

\* what the calls of write_file_index_bytes made so far were given
GivenSoFar ==
    Serialized(SubSeq(gFileIndex, 1, fiF - 1))
        \o (IF fiPhase = "offset"
            THEN NameBytes(gFileIndex[fiF].name) \o <<0>> ELSE <<>>)

\* what was handed to the block encoder, flush after flush
Handed == Concat([i \in 1..Len(gStreamIn) |-> gStreamIn[i].bytes])

\* what is in the staging buffer
Staged == SubSeq(gFileIndexBuf, 1, gFileIndexBufPos)

FileIndexBlocks == SelectSeq(gOutFile, LAMBDA r : r.kind = "file_index")

\* C19: the bytes handed to the block encoder by write_file_index, over all
\* LZMA_RUN flushes and the LZMA_FINISH flush, are those of the entries in
\* chain order: the bytes of the name, one 0x00 (that alone for the
\* sentinel) and the offset in eight bytes, low byte first.  Every byte is
\* handed over once, also when an entry lies across a CHUNKSIZE boundary, and
\* gFileIndexBufPos is below CHUNKSIZE between the calls.
FileIndexBytes ==
    /\ gFileIndexBufPos >= 0
    /\ gFileIndexBufPos < chunk
    /\ mainPc = "file_index" =>
          /\ Handed \o Staged = GivenSoFar
          /\ \A i \in 1..Len(gStreamIn) :
                gStreamIn[i].action = "LZMA_RUN" /\ Len(gStreamIn[i].bytes) = chunk
          /\ \A i \in 1..Len(gFileIndex) :
                IsLittleEndian64(xle64enc(gFileIndex[i].offset), gFileIndex[i].offset)
    /\ \A j \in 1..Len(FileIndexBlocks) :
          /\ Handed = Serialized(FileIndexBlocks[j].entries)
          /\ lzma_block_decode(FileIndexBlocks[j].output) = Handed
          /\ gFileIndexBufPos = 0
          /\ \A i \in 1..Len(gStreamIn) :
                IF i < Len(gStreamIn)
                THEN gStreamIn[i].action = "LZMA_RUN" /\ Len(gStreamIn[i].bytes) = chunk
                ELSE gStreamIn[i].action = "LZMA_FINISH" /\ Len(gStreamIn[i].bytes) < chunk

\* with a CHUNKSIZE of three, the first flush took the name "a", its 0x00 and
\* the first byte of the offset 258, and the last flush was not empty
FileIndexBytesWitness ==
    /\ FileIndexBlocks # <<>>
    /\ chunk = 3
    /\ Len(gStreamIn) > 3
    /\ gStreamIn[1].bytes = <<97, 0, 2>>
    /\ gStreamIn[2].bytes = <<1, 0, 0>>
    /\ Last(gStreamIn).bytes # <<>>
    /\ Len(FileIndexBlocks[1].entries) = 3

\* -------------------------------------------------------------- the pool
\* tar_read was called with no current block and is at its queue_pop
ReaderNeedsBlock == readPc = "tar_read"

\* C20 as stated: gReadQ never holds more than 2N+4 records, and whenever the
\* reader needs a fresh block gReadQ is not empty, so that the pop does not
\* block.
PoolNeverEmpty ==
    /\ Len(gReadQ) <= PoolSize(gNumEncodeThreads)
    /\ ReaderNeedsBlock => gReadQ # <<>>

\* C20 as amended: gReadQ never holds more than 2N+4 records, so main's push
\* of a written block can complete.  When the reader needs a fresh block
\* gReadQ may be empty; then all 2N+4 records are on their way through the
\* encoders and main, the reader's pop waits, and an encoder or main can take
\* a step.
PoolBackPressure ==
    /\ Len(gReadQ) <= PoolSize(gNumEncodeThreads)
    /\ \A i \in 1..Len(gReadQ) : gReadQ[i].type = "MSG_BLOCK"
    /\ (ReaderNeedsBlock /\ gReadQ = <<>>) =>
          /\ Cardinality(InFlight) = PoolSize(gNumEncodeThreads)
          /\ seq < gBlockNum
          /\ Running => ENABLED (Main \/ \E e \in Encoders : Encoder(e))

\* the reader has filled and posted every record of the pool and waits for
\* one to come back, main having written nothing but the header
PoolBackPressureWitness ==
    /\ ReaderNeedsBlock
    /\ gReadQ = <<>>
    /\ gBlockNum = PoolSize(gNumEncodeThreads)
    /\ gTotalRead = LongLen
    /\ Len(gOutFile) = 1

====
